---- MODULE Spec2Model ----
(***************************************************************************)
(* A model of the transformation core of some-scheme-compiler:             *)
(*   src/src/transform.rs  fresh names, rename_builtins, transform_lits,   *)
(*                         expand_lam_app, expand_lam_body, cps_transform  *)
(*   src/src/codegen.rs    resolve_env, extract_lambdas                    *)
(*   src/src/flat_expr.rs  FExpr::lift_lambdas                             *)
(*   src/src/nodes.rs      LExpr, Env, LExEnv                              *)
(*                                                                         *)
(* Identifiers are sequences of one-character strings, so that the        *)
(* format!() calls that build generated names are modelled character by    *)
(* character.  Trees are records with a "tag" field naming the variant.    *)
(***************************************************************************)
EXTENDS Integers, Sequences, FiniteSets, TLC

VARIABLES
    expr,           \* the tree the last pass returned (at first, the parser's)
    genvar_count,   \* TransformContext.genvar_count
    done,           \* the passes applied so far, oldest first
    prev,           \* the input of the last pass: [expr, genvar_count]
    var_index,      \* EnvCtx.var_index
    lam_map,        \* EnvCtx.lam_map
    lambdas,        \* the map returned by extract_lambdas
    issued,         \* the names returned by the gen_* calls made so far
    fexpr,          \* the FExpr handed to FExpr::lift_lambdas
    lift_ctx,       \* LiftingCtx: [id_counter, lambdas]
    cont_arg        \* the continuation handed to cps_transform_cont

vars == <<expr, genvar_count, done, prev, var_index, lam_map, lambdas,
          issued, fexpr, lift_ctx, cont_arg>>

---------------------------------------------------------------------------
(* Bounds *)

\* Largest input tree: expression nodes plus lambda parameters.
MaxSize == 4

\* Longest sequence of gen_* calls explored on one TransformContext.
MaxCalls == 4

\* Largest tree handed to the CPS conversion on its own, in nodes.
MaxCpsSize == 5

---------------------------------------------------------------------------
(* Identifiers *)

DigitChar == <<"0", "1", "2", "3", "4", "5", "6", "7", "8", "9">>

RECURSIVE Decimal(_)
\* format!("{}", n) of an unsigned integer
Decimal(n) ==
    IF n < 10 THEN <<DigitChar[n + 1]>>
    ELSE Decimal(n \div 10) \o <<DigitChar[(n % 10) + 1]>>

RECURSIVE Rev(_)
Rev(s) == IF s = <<>> THEN <<>> ELSE Rev(Tail(s)) \o <<Head(s)>>

AnonVarPrefix == <<"$", "a", "n", "o", "n", "_", "v", "a", "r", "_">>
ContVarPrefix == <<"$", "c", "o", "n", "t", "_", "v", "a", "r", "_">>
ThrowawayVarPrefix ==
    <<"$", "t", "h", "r", "o", "w", "a", "w", "a", "y", "_", "v", "a", "r", "_">>

\* The hints the passes give to gen_ident.
HintLamExpand == <<"l", "a", "m", "_", "e", "x", "p", "a", "n", "d">>
HintRatorVar == <<"r", "a", "t", "o", "r", "_", "v", "a", "r">>
HintRandVar == <<"r", "a", "n", "d", "_", "v", "a", "r">>
HintContVar == <<"c", "o", "n", "t", "_", "v", "a", "r">>

\* Identifiers of the source program.
NamePlus == <<"+">>
NameMinus == <<"-">>
NameTimes == <<"*">>
NameDivide == <<"/">>
NameToString == <<"t", "o", "_", "s", "t", "r", "i", "n", "g">>
NamePrintln == <<"p", "r", "i", "n", "t", "l", "n">>
NameK == <<"k">>

\* The i-th parameter name of a generated lambda: p1, p2, ...
Param(i) == <<"p">> \o Decimal(i)

---------------------------------------------------------------------------
(* TransformContext: every gen_* returns the value and the new counter *)

gen_ident(name, count) ==
    [name |-> AnonVarPrefix \o name \o <<"_">> \o Decimal(count),
     count |-> count + 1]

gen_throwaway(count) ==
    [name |-> ThrowawayVarPrefix \o Decimal(count),
     count |-> count + 1]

---------------------------------------------------------------------------
(* LExpr *)

Var(name) == [tag |-> "Var", name |-> name]
Lit(l) == [tag |-> "Lit", lit |-> l]
BuiltinIdent(name, typ) == [tag |-> "BuiltinIdent", name |-> name, typ |-> typ]
Lam(args, body) == [tag |-> "Lam", args |-> args, body |-> body]
App(operator, operands) ==
    [tag |-> "App", operator |-> operator, operands |-> operands]
LamOne(arg, body) == [tag |-> "LamOne", arg |-> arg, body |-> body]
AppOne(operator, operand) ==
    [tag |-> "AppOne", operator |-> operator, operand |-> operand]
LamOneOne(arg, e) == [tag |-> "LamOneOne", arg |-> arg, expr |-> e]
LamOneOneCont(arg, cont, e) ==
    [tag |-> "LamOneOneCont", arg |-> arg, cont |-> cont, expr |-> e]
AppOneCont(operator, operand, cont) ==
    [tag |-> "AppOneCont", operator |-> operator, operand |-> operand,
     cont |-> cont]

\* What a pass returns in place of a tree when it hits unreachable!()/panic!().
Panic == [tag |-> "Panic"]

\* Mutant: the counter is left as it is.
gen_cont_same_count(count) ==
    [expr |-> Var(ContVarPrefix \o Decimal(count)),
     count |-> count]

gen_cont(count) ==
    [expr |-> Var(ContVarPrefix \o Decimal(count)),
     count |-> count + 1]

void_obj == Lit("Void")

\* The children of a node, in source order.
Children(e) ==
    CASE e.tag = "Lam" -> e.body
      [] e.tag = "App" -> <<e.operator>> \o e.operands
      [] e.tag = "LamOne" -> e.body
      [] e.tag = "AppOne" -> <<e.operator, e.operand>>
      [] e.tag = "LamOneOne" -> <<e.expr>>
      [] e.tag = "LamOneOneCont" -> <<e.expr>>
      [] e.tag = "AppOneCont" -> <<e.operator, e.operand, e.cont>>
      [] e.tag \in {"EnvLam", "EnvLamCont"} -> <<e.expr>>
      [] e.tag = "App1" -> <<e.cont, e.rand>>
      [] e.tag = "App2" -> <<e.rator, e.rand, e.cont>>
      [] e.tag \in {"FExpr::LamOne", "FExpr::LamTwo"} -> <<e.body>>
      [] e.tag \in {"FExpr::CallOne", "Lifted::CallOne"} -> <<e.f, e.p>>
      [] e.tag \in {"FExpr::CallTwo", "Lifted::CallTwo"} -> <<e.f, e.p, e.k>>
      [] OTHER -> <<>>

RECURSIVE Nodes(_)
\* Every node of a tree.
Nodes(e) ==
    {e} \cup UNION {Nodes(Children(e)[i]) : i \in 1..Len(Children(e))}

Panicked(e) == \E n \in Nodes(e) : n.tag = "Panic"

RECURSIVE CountTags(_, _), CountTagsIn(_, _)
\* How many nodes of a tree carry one of the tags, equal subtrees counted apart.
CountTags(e, tags) ==
    (IF e.tag \in tags THEN 1 ELSE 0) + CountTagsIn(Children(e), tags)

CountTagsIn(es, tags) ==
    IF es = <<>> THEN 0
    ELSE CountTags(Head(es), tags) + CountTagsIn(Tail(es), tags)

---------------------------------------------------------------------------
(* The parser's output: trees of Lam, App, Var and Lit up to MaxSize *)

ParamList(k) == [i \in 1..k |-> Param(i)]

Leaves == {Var(Param(1)), Var(NamePlus), Lit("1")}

RECURSIVE ExprsOfSize(_), SeqsOfSize(_)
ExprsOfSize(n) ==
    (IF n = 1 THEN Leaves ELSE {})
    \cup UNION {{Lam(ParamList(k), b) : b \in SeqsOfSize(n - 1 - k)} :
                k \in 0..(n - 1)}
    \cup UNION {{App(f, s) : f \in ExprsOfSize(j), s \in SeqsOfSize(n - 1 - j)} :
                j \in 1..(n - 1)}

SeqsOfSize(m) ==
    IF m = 0 THEN {<<>>}
    ELSE UNION {{<<e>> \o s : e \in ExprsOfSize(j), s \in SeqsOfSize(m - j)} :
                j \in 1..m}

NameX == <<"x">>

\* ((lambda (x) x) 42)
S4_Input == App(Lam(<<NameX>>, <<Var(NameX)>>), <<Lit("42")>>)

\* (lambda (x) (lambda (x) x)): the inner parameter shadows the outer one.
Shadowing_Input == Lam(<<NameX>>, <<Lam(<<NameX>>, <<Var(NameX)>>)>>)

Inputs ==
    UNION {ExprsOfSize(n) : n \in 1..MaxSize} \cup {S4_Input, Shadowing_Input}

---------------------------------------------------------------------------
(* rename_builtins *)

BuiltinKeys ==
    {NameToString, NamePrintln, NamePlus, NameMinus, NameTimes, NameDivide}

builtin_name(var) ==
    CASE var = NameToString ->
            <<"t", "o", "_", "s", "t", "r", "i", "n", "g", "_", "f", "u", "n", "c">>
      [] var = NamePrintln ->
            <<"p", "r", "i", "n", "t", "l", "n", "_", "f", "u", "n", "c">>
      [] var = NamePlus ->
            <<"o", "b", "j", "e", "c", "t", "_", "i", "n", "t", "_",
              "o", "b", "j", "_", "a", "d", "d">>
      [] var = NameMinus ->
            <<"o", "b", "j", "e", "c", "t", "_", "i", "n", "t", "_",
              "o", "b", "j", "_", "s", "u", "b">>
      [] var = NameTimes ->
            <<"o", "b", "j", "e", "c", "t", "_", "i", "n", "t", "_",
              "o", "b", "j", "_", "m", "u", "l">>
      [] var = NameDivide ->
            <<"o", "b", "j", "e", "c", "t", "_", "i", "n", "t", "_",
              "o", "b", "j", "_", "d", "i", "v">>

\* Mutant: the table has no entry for "+".
rename_var_without_plus(var) ==
    IF var \in BuiltinKeys \ {NamePlus}
    THEN BuiltinIdent(builtin_name(var), "TwoArg")
    ELSE Var(var)

\* The Var arm of rename_builtins.
rename_var(var) ==
    IF var \in BuiltinKeys THEN BuiltinIdent(builtin_name(var), "TwoArg")
    ELSE Var(var)

RECURSIVE rename_builtins(_)
rename_builtins(e) ==
    CASE e.tag = "Lam" ->
            Lam(e.args, [i \in 1..Len(e.body) |-> rename_builtins(e.body[i])])
      [] e.tag = "App" ->
            App(rename_builtins(e.operator),
                [i \in 1..Len(e.operands) |-> rename_builtins(e.operands[i])])
      [] e.tag = "Var" -> rename_var(e.name)
      [] e.tag \in {"Lit", "BuiltinIdent"} -> e
      [] OTHER -> Panic

---------------------------------------------------------------------------
(* transform_lits *)

RECURSIVE transform_lits(_)
transform_lits(e) ==
    CASE e.tag = "Lam" ->
            Lam(e.args, [i \in 1..Len(e.body) |-> transform_lits(e.body[i])])
      [] e.tag = "App" ->
            App(transform_lits(e.operator),
                [i \in 1..Len(e.operands) |-> transform_lits(e.operands[i])])
      [] e.tag \in {"Var", "BuiltinIdent", "Lit"} -> e
      [] OTHER -> Panic

---------------------------------------------------------------------------
(* expand_lam_app *)

\* Mutant: the parameters are folded first to last.
lam_arg_iter_forward(args) == args

\* args.into_iter().rev(): the parameters, last first.
lam_arg_iter(args) == Rev(args)

RECURSIVE fold_lam_one(_, _)
\* iter.fold(first, |acc, arg| LamOne(arg, vec![acc]))
fold_lam_one(acc, iter) ==
    IF iter = <<>> THEN acc
    ELSE fold_lam_one(LamOne(Head(iter), <<acc>>), Tail(iter))

\* Mutant: the accumulated call becomes the operand.
app_fold_step_swapped(acc, arg) == AppOne(arg, acc)

\* One step of operands.fold(first, ...).
app_fold_step(acc, arg) == AppOne(acc, arg)

RECURSIVE fold_app_one(_, _)
\* operands.fold(first, |acc, arg| AppOne(box acc, box arg))
fold_app_one(acc, operands) ==
    IF operands = <<>> THEN acc
    ELSE fold_app_one(app_fold_step(acc, Head(operands)), Tail(operands))

RECURSIVE expand_lam_app(_, _), expand_lam_app_all(_, _)
\* xs.into_iter().map(|x| expand_lam_app(x, ctx)).collect()
expand_lam_app_all(es, count) ==
    IF es = <<>> THEN [exprs |-> <<>>, count |-> count]
    ELSE LET h == expand_lam_app(Head(es), count)
             t == expand_lam_app_all(Tail(es), h.count)
         IN  [exprs |-> <<h.expr>> \o t.exprs, count |-> t.count]

expand_lam_app(e, count) ==
    CASE e.tag = "Lam" ->
            LET body == expand_lam_app_all(e.body, count)
            IN  IF Len(e.args) = 0
                THEN LET t == gen_throwaway(body.count)
                     IN  [expr |-> LamOne(t.name, body.exprs), count |-> t.count]
                ELSE LET iter == lam_arg_iter(e.args)
                         first == LamOne(Head(iter), body.exprs)
                     IN  [expr |-> fold_lam_one(first, Tail(iter)),
                          count |-> body.count]
      [] e.tag = "App" ->
            LET operator == expand_lam_app(e.operator, count)
                operands == expand_lam_app_all(e.operands, operator.count)
            IN  IF Len(operands.exprs) = 0
                THEN [expr |-> AppOne(operator.expr, void_obj),
                      count |-> operands.count]
                ELSE LET first == AppOne(operator.expr, Head(operands.exprs))
                     IN  [expr |-> fold_app_one(first, Tail(operands.exprs)),
                          count |-> operands.count]
      [] e.tag \in {"Var", "Lit", "BuiltinIdent"} -> [expr |-> e, count |-> count]
      [] OTHER -> [expr |-> Panic, count |-> count]

---------------------------------------------------------------------------
(* expand_lam_body *)

\* The value of the match on num_body when the body is empty.
empty_body_inner(arg) == LamOneOne(arg, void_obj)

RECURSIVE fold_lam_body(_, _, _)
\* body.fold(first, |acc, arg|
\*     AppOne(box LamOneOne(ctx.gen_ident("lam_expand"), box acc), box arg))
fold_lam_body(acc, body, count) ==
    IF body = <<>> THEN [expr |-> acc, count |-> count]
    ELSE LET g == gen_ident(HintLamExpand, count)
         IN  fold_lam_body(AppOne(LamOneOne(g.name, acc), Head(body)),
                           Tail(body), g.count)

\* Mutant: the body's expressions are taken first to last.
body_iter_forward(body) == body

\* body.into_iter().rev(): the body's expressions, last first.
body_iter(body) == Rev(body)

RECURSIVE expand_lam_body(_, _), expand_lam_body_all(_, _)
\* xs.map(|b| expand_lam_body(b, ctx)).collect(), in the order of xs
expand_lam_body_all(es, count) ==
    IF es = <<>> THEN [exprs |-> <<>>, count |-> count]
    ELSE LET h == expand_lam_body(Head(es), count)
             t == expand_lam_body_all(Tail(es), h.count)
         IN  [exprs |-> <<h.expr>> \o t.exprs, count |-> t.count]

expand_lam_body(e, count) ==
    CASE e.tag = "LamOne" ->
            LET body == expand_lam_body_all(body_iter(e.body), count)
                inner ==
                    IF Len(e.body) = 0
                    THEN [expr |-> empty_body_inner(e.arg), count |-> body.count]
                    ELSE fold_lam_body(Head(body.exprs), Tail(body.exprs),
                                       body.count)
            IN  [expr |-> LamOneOne(e.arg, inner.expr), count |-> inner.count]
      [] e.tag = "AppOne" ->
            LET operator == expand_lam_body(e.operator, count)
                operand == expand_lam_body(e.operand, operator.count)
            IN  [expr |-> AppOne(operator.expr, operand.expr),
                 count |-> operand.count]
      [] OTHER -> [expr |-> e, count |-> count]

---------------------------------------------------------------------------
(* cps_transform_cont, cps_transform *)

\* Mutant: the call is made without its continuation.
cps_call_without_cont(rator_var, rand_var, cont) ==
    AppOne(Var(rator_var), Var(rand_var))

\* Mutant: the operand's value is called on the operator's.
cps_call_swapped(rator_var, rand_var, cont) ==
    AppOneCont(Var(rand_var), Var(rator_var), cont)

\* Mutant: the continuation is also passed as the operand.
cps_call_cont_twice(rator_var, rand_var, cont) ==
    AppOneCont(Var(rator_var), cont, cont)

\* The call that ends the conversion of an application.
cps_call(rator_var, rand_var, cont) ==
    AppOneCont(Var(rator_var), Var(rand_var), cont)

RECURSIVE cps_transform_cont(_, _, _), cps_transform(_, _)
cps_transform_cont(e, cont, count) ==
    CASE e.tag \in {"Var", "LamOneOne", "LamOneOneCont", "BuiltinIdent", "Lit"} ->
            LET r == cps_transform(e, count)
            IN  [expr |-> AppOne(cont, r.expr), count |-> r.count]
      [] e.tag = "AppOne" ->
            LET rator_var == gen_ident(HintRatorVar, count)
                rand_var == gen_ident(HintRandVar, rator_var.count)
                call == cps_call(rator_var.name, rand_var.name, cont)
                rand == cps_transform_cont(e.operand,
                                           LamOneOne(rand_var.name, call),
                                           rand_var.count)
            IN  cps_transform_cont(e.operator,
                                   LamOneOne(rator_var.name, rand.expr),
                                   rand.count)
      [] OTHER -> [expr |-> Panic, count |-> count]

cps_transform(e, count) ==
    CASE e.tag = "LamOneOne" ->
            LET cont_var == gen_ident(HintContVar, count)
                body == cps_transform_cont(e.expr, Var(cont_var.name),
                                           cont_var.count)
            IN  [expr |-> LamOneOneCont(e.arg, cont_var.name, body.expr),
                 count |-> body.count]
      [] e.tag = "LamOneOneCont" -> [expr |-> Panic, count |-> count]
      [] OTHER -> [expr |-> e, count |-> count]

---------------------------------------------------------------------------
(* Env, LExEnv *)

\* Env::empty(): a map from identifiers to slot ids, with no entry
Env_empty == [n \in {} |-> 0]

\* Env::get(key) is Some(_)
Env_has(env, key) == key \in DOMAIN env

RECURSIVE Env_extend(_, _)
\* HashMap::extend(vals): the pairs are inserted in order, a later one wins
Env_extend(map, vals) ==
    IF vals = <<>> THEN map
    ELSE Env_extend((Head(vals)[1] :> Head(vals)[2]) @@ map, Tail(vals))

\* Mutant: a name the parent binds keeps the parent's slot id.
Env_new_parent_wins(parent, vals) == parent @@ Env_extend(Env_empty, vals)

\* Env::new(parent, vals)
Env_new(parent, vals) == Env_extend(parent, vals)

EnvLam(arg, e, env, id) ==
    [tag |-> "EnvLam", arg |-> arg, expr |-> e, env |-> env, id |-> id]
EnvLamCont(arg, cont, e, env, id) ==
    [tag |-> "EnvLamCont", arg |-> arg, cont |-> cont, expr |-> e, env |-> env,
     id |-> id]
App1(cont, rand, env) ==
    [tag |-> "App1", cont |-> cont, rand |-> rand, env |-> env]
App2(rator, rand, cont, env) ==
    [tag |-> "App2", rator |-> rator, rand |-> rand, cont |-> cont, env |-> env]
EnvVar(name, global, env) ==
    [tag |-> "EnvVar", name |-> name, global |-> global, env |-> env]
LamRef(id) == [tag |-> "LamRef", id |-> id]

---------------------------------------------------------------------------
(* EnvCtx, resolve_env *)

EnvCtx_new == [var_index |-> 0, lam_map |-> <<>>]

get_var_index(ctx) ==
    [index |-> ctx.var_index,
     ctx |-> [ctx EXCEPT !.var_index = ctx.var_index + 1]]

\* Mutant: the index is read after the push.
add_lam_map_after_push(ctx, env) ==
    [index |-> Len(ctx.lam_map) + 1,
     ctx |-> [ctx EXCEPT !.lam_map = Append(ctx.lam_map, env)]]

add_lam_map(ctx, env) ==
    [index |-> Len(ctx.lam_map),
     ctx |-> [ctx EXCEPT !.lam_map = Append(ctx.lam_map, env)]]

\* The global flag resolve_env_internal gives a Var.
var_global(env, name) == Env_has(env, name)

RECURSIVE resolve_env_internal(_, _, _)
resolve_env_internal(node, env, ctx) ==
    CASE node.tag = "Var" ->
            [expr |-> EnvVar(node.name, var_global(env, node.name), env),
             ctx |-> ctx]
      [] node.tag = "AppOne" ->
            LET cont == resolve_env_internal(node.operator, env, ctx)
                operand == resolve_env_internal(node.operand, env, cont.ctx)
            IN  [expr |-> App1(cont.expr, operand.expr, env), ctx |-> operand.ctx]
      [] node.tag = "AppOneCont" ->
            LET operator == resolve_env_internal(node.operator, env, ctx)
                operand == resolve_env_internal(node.operand, env, operator.ctx)
                cont == resolve_env_internal(node.cont, env, operand.ctx)
            IN  [expr |-> App2(operator.expr, operand.expr, cont.expr, env),
                 ctx |-> cont.ctx]
      [] node.tag = "LamOneOne" ->
            LET arg_index == get_var_index(ctx)
                new_env == Env_new(env, <<<<node.arg, arg_index.index>>>>)
                id == add_lam_map(arg_index.ctx, new_env)
                body == resolve_env_internal(node.expr, new_env, id.ctx)
            IN  [expr |-> EnvLam(node.arg, body.expr, new_env, id.index),
                 ctx |-> body.ctx]
      [] node.tag = "LamOneOneCont" ->
            LET arg_index == get_var_index(ctx)
                cont_index == get_var_index(arg_index.ctx)
                new_env == Env_new(env, <<<<node.arg, arg_index.index>>,
                                          <<node.cont, cont_index.index>>>>)
                id == add_lam_map(cont_index.ctx, new_env)
                body == resolve_env_internal(node.expr, new_env, id.ctx)
            IN  [expr |-> EnvLamCont(node.arg, node.cont, body.expr, new_env,
                                     id.index),
                 ctx |-> body.ctx]
      [] OTHER -> [expr |-> Panic, ctx |-> ctx]

resolve_env(node) == resolve_env_internal(node, Env_empty, EnvCtx_new)

---------------------------------------------------------------------------
(* extract_lambdas *)

\* HashMap::new()
HashMap_new == [n \in {} |-> 0]

\* HashMap::insert(k, v)
HashMap_insert(map, k, v) == (k :> v) @@ map

\* HashMap::extend(other)
HashMap_extend(map, other) == other @@ map

\* Mutant: the lambda stays in place.
lam_replacement_in_place(node) == node

\* What extract_lambdas leaves in the place of a lambda.
lam_replacement(node) == LamRef(node.id)

RECURSIVE extract_lambdas(_)
extract_lambdas(node) ==
    CASE node.tag = "EnvLam" ->
            LET inner == extract_lambdas(node.expr)
                new == EnvLam(node.arg, inner.expr, node.env, node.id)
            IN  [expr |-> lam_replacement(node),
                 lambdas |-> HashMap_insert(inner.lambdas, node.id, new)]
      [] node.tag = "EnvLamCont" ->
            LET inner == extract_lambdas(node.expr)
                new == EnvLamCont(node.arg, node.cont, inner.expr, node.env,
                                  node.id)
            IN  [expr |-> lam_replacement(node),
                 lambdas |-> HashMap_insert(inner.lambdas, node.id, new)]
      [] node.tag = "App1" ->
            LET cont == extract_lambdas(node.cont)
                rand == extract_lambdas(node.rand)
            IN  [expr |-> App1(cont.expr, rand.expr, node.env),
                 lambdas |-> HashMap_extend(cont.lambdas, rand.lambdas)]
      [] node.tag = "App2" ->
            LET rator == extract_lambdas(node.rator)
                rand == extract_lambdas(node.rand)
                cont == extract_lambdas(node.cont)
            IN  [expr |-> App2(rator.expr, rand.expr, cont.expr, node.env),
                 lambdas |-> HashMap_extend(
                                 HashMap_extend(rator.lambdas, rand.lambdas),
                                 cont.lambdas)]
      [] OTHER -> [expr |-> node, lambdas |-> HashMap_new]

---------------------------------------------------------------------------
(* FExpr, LiftingCtx, FExpr::lift_lambdas *)

FLamOne(param, body) == [tag |-> "FExpr::LamOne", param |-> param, body |-> body]
FLamTwo(param0, param1, body) ==
    [tag |-> "FExpr::LamTwo", param0 |-> param0, param1 |-> param1,
     body |-> body]
FVar(name) == [tag |-> "FExpr::Var", name |-> name]
FLit(l) == [tag |-> "FExpr::Lit", lit |-> l]
FBuiltinIdent(name) == [tag |-> "FExpr::BuiltinIdent", name |-> name]
FCallOne(f, p) == [tag |-> "FExpr::CallOne", f |-> f, p |-> p]
FCallTwo(f, p, k) == [tag |-> "FExpr::CallTwo", f |-> f, p |-> p, k |-> k]

\* The variants of the lifted expression that lift_lambdas_internal builds.
Lifted(id) == [tag |-> "Lifted", id |-> id]
LiftedVar(name) == [tag |-> "Lifted::Var", name |-> name]
LiftedLit(l) == [tag |-> "Lifted::Lit", lit |-> l]
LiftedBuiltinIdent(name) == [tag |-> "Lifted::BuiltinIdent", name |-> name]
LiftedCallOne(f, p) == [tag |-> "Lifted::CallOne", f |-> f, p |-> p]
LiftedCallTwo(f, p, k) == [tag |-> "Lifted::CallTwo", f |-> f, p |-> p, k |-> k]

\* body.free_vars(): every enclosing scope is unbound before the body is
\* lifted and the lifted body holds no scope, so each of its variables is free.
free_vars(body) == {n.name : n \in {m \in Nodes(body) : m.tag = "Lifted::Var"}}

\* LiftedLambda::new(id, params, free_vars, body)
LiftedLambda_new(id, params, free, body) ==
    [id |-> id, params |-> params, free_vars |-> free, body |-> body]

LiftingCtx_new == [id_counter |-> 0, lambdas |-> HashMap_new]

\* LiftingCtx::get: the counter's value, and the counter one further
LiftingCtx_get(ctx) ==
    [id |-> ctx.id_counter,
     ctx |-> [ctx EXCEPT !.id_counter = ctx.id_counter + 1]]

\* LiftingCtx::add
LiftingCtx_add(ctx, l) ==
    [ctx EXCEPT !.lambdas = HashMap_insert(ctx.lambdas, l.id, l)]

RECURSIVE lift_lambdas_internal(_, _)
lift_lambdas_internal(self, ctx) ==
    CASE self.tag = "FExpr::LamOne" ->
            LET body == lift_lambdas_internal(self.body, ctx)
                id == LiftingCtx_get(body.ctx)
                l == LiftedLambda_new(id.id, <<self.param>>,
                                      free_vars(body.expr), body.expr)
            IN  [expr |-> Lifted(id.id), ctx |-> LiftingCtx_add(id.ctx, l)]
      [] self.tag = "FExpr::LamTwo" ->
            LET body == lift_lambdas_internal(self.body, ctx)
                id == LiftingCtx_get(body.ctx)
                l == LiftedLambda_new(id.id, <<self.param0, self.param1>>,
                                      free_vars(body.expr), body.expr)
            IN  [expr |-> Lifted(id.id), ctx |-> LiftingCtx_add(id.ctx, l)]
      [] self.tag = "FExpr::Var" -> [expr |-> LiftedVar(self.name), ctx |-> ctx]
      [] self.tag = "FExpr::Lit" -> [expr |-> LiftedLit(self.lit), ctx |-> ctx]
      [] self.tag = "FExpr::BuiltinIdent" ->
            [expr |-> LiftedBuiltinIdent(self.name), ctx |-> ctx]
      [] self.tag = "FExpr::CallOne" ->
            LET f == lift_lambdas_internal(self.f, ctx)
                p == lift_lambdas_internal(self.p, f.ctx)
            IN  [expr |-> LiftedCallOne(f.expr, p.expr), ctx |-> p.ctx]
      [] self.tag = "FExpr::CallTwo" ->
            LET f == lift_lambdas_internal(self.f, ctx)
                p == lift_lambdas_internal(self.p, f.ctx)
                k == lift_lambdas_internal(self.k, p.ctx)
            IN  [expr |-> LiftedCallTwo(f.expr, p.expr, k.expr), ctx |-> k.ctx]

lift_lambdas(self) == lift_lambdas_internal(self, LiftingCtx_new)

\* The FExpr trees handed to lift_lambdas, up to MaxSize nodes and parameters.
FLeaves == {FVar(Param(1)), FLit("1")}

RECURSIVE FExprsOfSize(_)
FExprsOfSize(n) ==
    (IF n = 1 THEN FLeaves ELSE {})
    \cup {FLamOne(Param(1), b) : b \in IF n > 2 THEN FExprsOfSize(n - 2) ELSE {}}
    \cup {FLamTwo(Param(1), Param(2), b) :
            b \in IF n > 3 THEN FExprsOfSize(n - 3) ELSE {}}
    \cup UNION {{FCallOne(f, p) : f \in FExprsOfSize(i), p \in FExprsOfSize(j)} :
                <<i, j>> \in {ij \in (1..n) \X (1..n) : ij[1] + ij[2] = n - 1}}
    \cup UNION {{FCallTwo(f, p, k) : f \in FExprsOfSize(ijl[1]),
                                     p \in FExprsOfSize(ijl[2]),
                                     k \in FExprsOfSize(ijl[3])} :
                ijl \in {t \in (1..n) \X (1..n) \X (1..n) :
                            t[1] + t[2] + t[3] = n - 1}}

FInputs == UNION {FExprsOfSize(n) : n \in 1..MaxSize}

\* No tree: the state of a variable that holds none.
NoExpr == [tag |-> "None"]

---------------------------------------------------------------------------
(* The pipeline *)

Applied(pass) == done # <<>> /\ done[Len(done)] = pass

\* The compilation of a parsed program starts; or, for the later revision of
\* the lifter in flat_expr.rs, an FExpr is about to be lifted.
Init ==
    /\ \/ expr \in Inputs /\ fexpr = NoExpr
       \/ expr = NoExpr /\ fexpr \in FInputs
    /\ genvar_count = 0
    /\ done = <<>>
    /\ prev = [expr |-> NoExpr, genvar_count |-> 0]
    /\ var_index = 0
    /\ lam_map = <<>>
    /\ lambdas = HashMap_new
    /\ issued = <<>>
    /\ lift_ctx = LiftingCtx_new
    /\ cont_arg = NoExpr

\* One pass: the tree and the counter it leaves, or the abort of the compilation.
Step(pass, e, count) ==
    /\ prev' = [expr |-> expr, genvar_count |-> genvar_count]
    /\ IF Panicked(e)
       THEN /\ done' = Append(done, "abort")
            /\ expr' = Panic
            /\ genvar_count' = genvar_count
       ELSE /\ done' = Append(done, pass)
            /\ expr' = e
            /\ genvar_count' = count

\* The passes in the order the pipeline applies them.
Pipeline ==
    <<"rename_builtins", "transform_lits", "expand_lam_app", "expand_lam_body",
      "cps_transform", "resolve_env", "extract_lambdas">>

\* The first n passes have run, each once; the fifth through either of the
\* two entry points of the CPS conversion.
Ran(n) ==
    /\ Len(done) = n
    /\ \A i \in 1..n :
          \/ done[i] = Pipeline[i]
          \/ i = 5 /\ done[i] = "cps_transform_cont"

\* rename_builtins, on the parser's output or once more on its own output.
RenameBuiltins ==
    /\ expr # NoExpr
    /\ done \in {<<>>, <<"rename_builtins">>}
    /\ Step("rename_builtins", rename_builtins(expr), genvar_count)
    /\ UNCHANGED <<var_index, lam_map, lambdas, issued, fexpr, lift_ctx,
                   cont_arg>>

TransformLits ==
    /\ Ran(1)
    /\ Step("transform_lits", transform_lits(expr), genvar_count)
    /\ UNCHANGED <<var_index, lam_map, lambdas, issued, fexpr, lift_ctx,
                   cont_arg>>

ExpandLamApp ==
    /\ Ran(2)
    /\ LET r == expand_lam_app(expr, genvar_count)
       IN  Step("expand_lam_app", r.expr, r.count)
    /\ UNCHANGED <<var_index, lam_map, lambdas, issued, fexpr, lift_ctx,
                   cont_arg>>

ExpandLamBody ==
    /\ Ran(3)
    /\ LET r == expand_lam_body(expr, genvar_count)
       IN  Step("expand_lam_body", r.expr, r.count)
    /\ UNCHANGED <<var_index, lam_map, lambdas, issued, fexpr, lift_ctx,
                   cont_arg>>

\* cps_transform on the whole program.
CpsTransform ==
    /\ Ran(4)
    /\ LET r == cps_transform(expr, genvar_count)
       IN  Step("cps_transform", r.expr, r.count)
    /\ UNCHANGED <<var_index, lam_map, lambdas, issued, fexpr, lift_ctx,
                   cont_arg>>

\* cps_transform_cont on the whole program, with the program's continuation k.
CpsTransformCont ==
    /\ Ran(4)
    /\ cont_arg' = Var(NameK)
    /\ LET r == cps_transform_cont(expr, cont_arg', genvar_count)
       IN  Step("cps_transform_cont", r.expr, r.count)
    /\ UNCHANGED <<var_index, lam_map, lambdas, issued, fexpr, lift_ctx>>

\* resolve_env on the converted program, with a new EnvCtx.
ResolveEnv ==
    /\ Ran(5)
    /\ LET r == resolve_env(expr)
       IN  /\ Step("resolve_env", r.expr, genvar_count)
           /\ var_index' = IF Panicked(r.expr) THEN var_index ELSE r.ctx.var_index
           /\ lam_map' = IF Panicked(r.expr) THEN lam_map ELSE r.ctx.lam_map
    /\ UNCHANGED <<lambdas, issued, fexpr, lift_ctx, cont_arg>>

ExtractLambdas ==
    /\ Ran(6)
    /\ LET r == extract_lambdas(expr)
       IN  /\ Step("extract_lambdas", r.expr, genvar_count)
           /\ lambdas' = r.lambdas
    /\ UNCHANGED <<var_index, lam_map, issued, fexpr, lift_ctx, cont_arg>>

\* FExpr::lift_lambdas on the FExpr, with a new LiftingCtx.
LiftLambdas ==
    /\ fexpr # NoExpr
    /\ done = <<>>
    /\ LET r == lift_lambdas(fexpr)
       IN  /\ expr' = r.expr
           /\ lift_ctx' = r.ctx
    /\ done' = <<"lift_lambdas">>
    /\ UNCHANGED <<genvar_count, prev, var_index, lam_map, lambdas, issued,
                   fexpr, cont_arg>>

Next ==
    \/ RenameBuiltins
    \/ TransformLits
    \/ ExpandLamApp
    \/ ExpandLamBody
    \/ CpsTransform
    \/ CpsTransformCont
    \/ ResolveEnv
    \/ ExtractLambdas
    \/ LiftLambdas

Spec == Init /\ [][Next]_vars

---------------------------------------------------------------------------
(* Calls on one TransformContext, in any order *)

\* The hints given to gen_ident.
Hints == {<<"v">>, <<"v", "_", "0">>, <<"v", "_", "1">>}

InitNames ==
    /\ expr = NoExpr
    /\ fexpr = NoExpr
    /\ genvar_count = 0
    /\ done = <<>>
    /\ prev = [expr |-> NoExpr, genvar_count |-> 0]
    /\ var_index = 0
    /\ lam_map = <<>>
    /\ lambdas = HashMap_new
    /\ issued = <<>>
    /\ lift_ctx = LiftingCtx_new
    /\ cont_arg = NoExpr

GenIdent(hint) ==
    /\ Len(issued) < MaxCalls
    /\ LET r == gen_ident(hint, genvar_count)
       IN  /\ issued' = Append(issued, r.name)
           /\ genvar_count' = r.count
    /\ UNCHANGED <<expr, done, prev, var_index, lam_map, lambdas, fexpr,
                   lift_ctx, cont_arg>>

GenCont ==
    /\ Len(issued) < MaxCalls
    /\ LET r == gen_cont(genvar_count)
       IN  /\ issued' = Append(issued, r.expr.name)
           /\ genvar_count' = r.count
    /\ UNCHANGED <<expr, done, prev, var_index, lam_map, lambdas, fexpr,
                   lift_ctx, cont_arg>>

GenThrowaway ==
    /\ Len(issued) < MaxCalls
    /\ LET r == gen_throwaway(genvar_count)
       IN  /\ issued' = Append(issued, r.name)
           /\ genvar_count' = r.count
    /\ UNCHANGED <<expr, done, prev, var_index, lam_map, lambdas, fexpr,
                   lift_ctx, cont_arg>>

NextNames ==
    \/ \E hint \in Hints : GenIdent(hint)
    \/ GenCont
    \/ GenThrowaway

SpecNames == InitNames /\ [][NextNames]_vars

---------------------------------------------------------------------------
(* Calls of the CPS conversion on any tree of its input type *)

\* A lambda that is already in continuation-passing style.
CpsLambda ==
    LamOneOneCont(NameX, NameK, AppOne(Var(NameK), Var(NameX)))

CpsLeaves ==
    {Var(NameX), Lit("1"), BuiltinIdent(builtin_name(NamePlus), "TwoArg"),
     CpsLambda}

RECURSIVE CpsExprsOfSize(_)
\* Trees of LamOneOne and AppOne over the leaves, by their number of nodes.
CpsExprsOfSize(n) ==
    IF n = 1 THEN CpsLeaves
    ELSE {LamOneOne(NameX, b) : b \in CpsExprsOfSize(n - 1)}
         \cup UNION {{AppOne(f, a) : f \in CpsExprsOfSize(j),
                                     a \in CpsExprsOfSize(n - 1 - j)} :
                     j \in 1..(n - 2)}

CpsInputs == UNION {CpsExprsOfSize(n) : n \in 1..MaxCpsSize}

\* The continuations handed to cps_transform_cont: a variable the tree does
\* not mention, one it does mention, and a lambda.
Conts == {Var(NameK), Var(NameX), LamOneOne(NameK, Var(NameK))}

\* The values of genvar_count at the call.
StartCounts == {0, 9}

InitCps ==
    /\ expr \in CpsInputs
    /\ cont_arg \in Conts
    /\ genvar_count \in StartCounts
    /\ fexpr = NoExpr
    /\ done = <<>>
    /\ prev = [expr |-> NoExpr, genvar_count |-> 0]
    /\ var_index = 0
    /\ lam_map = <<>>
    /\ lambdas = HashMap_new
    /\ issued = <<>>
    /\ lift_ctx = LiftingCtx_new

\* cps_transform(expr, ctx)
CallCpsTransform ==
    /\ done = <<>>
    /\ LET r == cps_transform(expr, genvar_count)
       IN  Step("cps_transform", r.expr, r.count)
    /\ UNCHANGED <<var_index, lam_map, lambdas, issued, fexpr, lift_ctx,
                   cont_arg>>

\* cps_transform_cont(expr, cont, ctx)
CallCpsTransformCont ==
    /\ done = <<>>
    /\ LET r == cps_transform_cont(expr, cont_arg, genvar_count)
       IN  Step("cps_transform_cont", r.expr, r.count)
    /\ UNCHANGED <<var_index, lam_map, lambdas, issued, fexpr, lift_ctx,
                   cont_arg>>

NextCps ==
    \/ CallCpsTransform
    \/ CallCpsTransformCont

SpecCps == InitCps /\ [][NextCps]_vars

---------------------------------------------------------------------------
(* Properties *)

LamTags == {"EnvLam", "EnvLamCont"}
FLamTags == {"FExpr::LamOne", "FExpr::LamTwo"}

\* The lambdas of an environment-annotated tree.
EnvLams(e) == {n \in Nodes(e) : n.tag \in LamTags}

\* C1: after resolve_env every Var of the output has global = TRUE exactly
\* when its name is not bound in the Env stored on it.
C1_GlobalIffUnbound ==
    Applied("resolve_env") =>
        \A n \in Nodes(expr) :
            n.tag = "EnvVar" => (n.global <=> ~Env_has(n.env, n.name))

\* The continuation position of a converted tree holds a variable or an
\* administrative lambda; the value handed to it is an atom or a converted lambda.
IsCont(e) == e.tag \in {"Var", "LamOneOne"}
IsValue(e) == e.tag \in {"Var", "Lit", "BuiltinIdent", "LamOneOneCont"}

\* The names cps_transform_cont generates for an operator and an operand.
IsAdminName(name) ==
    \E c \in 0..genvar_count :
        name \in {gen_ident(HintRatorVar, c).name, gen_ident(HintRandVar, c).name}

\* Every AppOne of the tree invokes a continuation on a value, every
\* LamOneOne is an administrative continuation, in continuation position.
CpsShape(e) ==
    /\ e.tag # "LamOneOne"
    /\ \A n \in Nodes(e) :
        /\ n.tag \in {"Var", "Lit", "BuiltinIdent", "AppOne", "AppOneCont",
                      "LamOneOne", "LamOneOneCont"}
        /\ n.tag = "AppOne" => IsCont(n.operator) /\ IsValue(n.operand)
        /\ n.tag = "AppOneCont" =>
              /\ n.operator.tag = "Var" /\ IsAdminName(n.operator.name)
              /\ n.operand.tag = "Var" /\ IsAdminName(n.operand.name)
              /\ IsCont(n.cont)
        /\ n.tag = "LamOneOne" =>
              IsAdminName(n.arg) /\ n.expr.tag \in {"AppOne", "AppOneCont"}
        /\ n.tag = "LamOneOneCont" => n.expr.tag \in {"AppOne", "AppOneCont"}

\* The calls of the CPS conversion that convert: cps_transform_cont, and
\* cps_transform of a lambda.
Converted ==
    \/ Applied("cps_transform_cont")
    \/ Applied("cps_transform") /\ prev.expr.tag = "LamOneOne"

\* C2, as stated: the result of the CPS conversion holds no AppOne and no
\* LamOneOne.
C2_NoDirectStyleNode ==
    (Applied("cps_transform") \/ Applied("cps_transform_cont")) =>
        \A n \in Nodes(expr) : n.tag \notin {"AppOne", "LamOneOne"}

\* C2, amended: cps_transform_cont, and cps_transform of a lambda, turn every
\* application of the input into one AppOneCont and every lambda of the input
\* into one LamOneOneCont; the AppOne nodes of the result are the invocations
\* of a continuation on a value and its LamOneOne nodes are the administrative
\* continuations; cps_transform returns any other input unchanged.
C2_SourceNodesConverted ==
    /\ Converted =>
          /\ CpsShape(expr)
          /\ CountTags(expr, {"AppOneCont"}) = CountTags(prev.expr, {"AppOne"})
          /\ CountTags(expr, {"LamOneOneCont"})
                = CountTags(prev.expr, {"LamOneOne"})
    /\ Applied("cps_transform") /\ prev.expr.tag # "LamOneOne" =>
          expr = prev.expr

\* An application with a lambda in it has been converted.
C2_Witness ==
    /\ Converted
    /\ CountTags(prev.expr, {"AppOne"}) >= 2
    /\ CountTags(prev.expr, {"LamOneOne"}) >= 1
    /\ \E n \in Nodes(expr) : n.tag = "AppOne"
    /\ \E n \in Nodes(expr) : n.tag = "LamOneOne"

\* C3: lambda lifting returns a main expression without lambdas and a map
\* with exactly one entry per lambda of the input, keyed by its id, whose
\* values' bodies hold no lambda (extract_lambdas, on a tree whose ids are
\* pairwise distinct; FExpr::lift_lambdas).
C3_LambdasLifted ==
    /\ Applied("extract_lambdas") =>
          /\ \A n \in Nodes(expr) : n.tag \notin LamTags
          /\ DOMAIN lambdas = {l.id : l \in EnvLams(prev.expr)}
          /\ Cardinality(DOMAIN lambdas) = CountTags(prev.expr, LamTags)
          /\ \A l \in EnvLams(prev.expr) :
                /\ lambdas[l.id].tag = l.tag
                /\ lambdas[l.id].id = l.id
                /\ lambdas[l.id].arg = l.arg
                /\ lambdas[l.id].env = l.env
                /\ lambdas[l.id].expr = extract_lambdas(l.expr).expr
          /\ \A id \in DOMAIN lambdas :
                \A n \in Nodes(lambdas[id].expr) : n.tag \notin LamTags
    /\ Applied("lift_lambdas") =>
          /\ \A n \in Nodes(expr) : n.tag \notin FLamTags
          /\ Cardinality(DOMAIN lift_ctx.lambdas) = CountTags(fexpr, FLamTags)
          /\ \A id \in DOMAIN lift_ctx.lambdas :
                /\ lift_ctx.lambdas[id].id = id
                /\ \A n \in Nodes(lift_ctx.lambdas[id].body) :
                      n.tag \notin FLamTags

\* A tree with a lambda inside a lambda has been lifted by extract_lambdas.
C3_Witness ==
    /\ Applied("extract_lambdas")
    /\ Cardinality(DOMAIN lambdas) >= 2
    /\ \E l \in EnvLams(prev.expr) : EnvLams(l.expr) # {}
    /\ \E n \in Nodes(expr) : n.tag = "LamRef"

\* C4: the lambda ids of one compilation are 0 .. n-1 for the n lambdas of
\* the input, one lambda per id (resolve_env and the map of extract_lambdas;
\* FExpr::lift_lambdas).
C4_LambdaIdsDense ==
    /\ Applied("resolve_env") =>
          LET n == CountTags(prev.expr, {"LamOneOne", "LamOneOneCont"})
          IN  /\ {l.id : l \in EnvLams(expr)} = 0..(n - 1)
              /\ Cardinality(EnvLams(expr)) = n
              /\ Len(lam_map) = n
              /\ \A l \in EnvLams(expr) : lam_map[l.id + 1] = l.env
    /\ Applied("extract_lambdas") => DOMAIN lambdas = 0..(Len(lam_map) - 1)
    /\ Applied("lift_lambdas") =>
          LET n == CountTags(fexpr, FLamTags)
          IN  /\ DOMAIN lift_ctx.lambdas = 0..(n - 1)
              /\ lift_ctx.id_counter = n

\* resolve_env has numbered at least three lambdas.
C4_Witness ==
    /\ Applied("resolve_env")
    /\ Len(lam_map) >= 3
    /\ Cardinality(EnvLams(expr)) >= 3

\* The names gen_ident("lam_expand") and gen_throwaway can have returned.
IsLamExpandName(name) ==
    \E c \in 0..genvar_count : name = gen_ident(HintLamExpand, c).name
IsThrowawayName(name) ==
    \E c \in 0..genvar_count : name = gen_throwaway(c).name

\* x is the body sequencer's result for e, whatever the counter it started at.
Sequenced(x, e) ==
    \E c \in 0..genvar_count : x = expand_lam_body(e, c).expr

RECURSIVE SequencedChain(_, _, _, _)
\* b is B_i of the chain for the body es: the last expression alone, or the
\* call of a one-expression lambda, binding a name not in used, on e_i.
SequencedChain(b, es, i, used) ==
    IF i = Len(es) THEN Sequenced(b, es[i])
    ELSE /\ b.tag = "AppOne"
         /\ b.operator.tag = "LamOneOne"
         /\ IsLamExpandName(b.operator.arg)
         /\ b.operator.arg \notin used
         /\ Sequenced(b.operand, es[i])
         /\ SequencedChain(b.operator.expr, es, i + 1,
                           used \cup {b.operator.arg})

C6_EmptyBodyIsVoid ==
    Applied("expand_lam_body") /\ prev.expr.tag = "LamOne"
                               /\ Len(prev.expr.body) = 0 =>
        expr = LamOneOne(prev.expr.arg, void_obj)

RECURSIVE NestedLamOne(_, _, _, _)
\* e is LamOne(args[i], [LamOne(args[i+1], [.. LamOne(args[k], body) ..])]).
NestedLamOne(e, args, i, body) ==
    /\ e.tag = "LamOne"
    /\ e.arg = args[i]
    /\ IF i = Len(args) THEN e.body = body
       ELSE Len(e.body) = 1 /\ NestedLamOne(e.body[1], args, i + 1, body)

\* C7: expand_lam_app turns Lam([p1 .. pk], body), k >= 1, into
\* LamOne(p1, [LamOne(p2, [.. LamOne(pk, body') ..])]), body' the normalized
\* body; for k = 0 into LamOne(t, body'), t a throwaway name that is new.
C7_LamCurriedInOrder ==
    Applied("expand_lam_app") /\ prev.expr.tag = "Lam" =>
        LET body == expand_lam_app_all(prev.expr.body, prev.genvar_count).exprs
        IN  IF Len(prev.expr.args) >= 1
            THEN NestedLamOne(expr, prev.expr.args, 1, body)
            ELSE /\ expr.tag = "LamOne"
                 /\ expr.body = body
                 /\ IsThrowawayName(expr.arg)
                 /\ \A i \in 1..Len(body) : \A n \in Nodes(body[i]) :
                       /\ n.tag = "Var" => n.name # expr.arg
                       /\ n.tag = "LamOne" => n.arg # expr.arg

\* A lambda of two parameters or more, with a body, has been curried.
C7_Witness ==
    /\ Applied("expand_lam_app")
    /\ prev.expr.tag = "Lam"
    /\ Len(prev.expr.args) >= 2
    /\ Len(prev.expr.body) >= 1
    /\ expr.tag = "LamOne"

RECURSIVE LeftChain(_, _, _, _)
\* e is AppOne(.. AppOne(AppOne(f, as[1]), as[2]) .., as[i]).
LeftChain(e, f, as, i) ==
    /\ e.tag = "AppOne"
    /\ e.operand = as[i]
    /\ IF i = 1 THEN e.operator = f ELSE LeftChain(e.operator, f, as, i - 1)

\* C8: expand_lam_app turns App(f, [a1 .. an]), n >= 1, into
\* AppOne(.. AppOne(AppOne(f', a1'), a2') .., an'), f' and the ai' the
\* normalized operator and operands, f' innermost and nowhere else.
C8_AppLeftAssociated ==
    Applied("expand_lam_app") /\ prev.expr.tag = "App"
                              /\ Len(prev.expr.operands) >= 1 =>
        LET f == expand_lam_app(prev.expr.operator, prev.genvar_count)
            as == expand_lam_app_all(prev.expr.operands, f.count).exprs
        IN  /\ LeftChain(expr, f.expr, as, Len(as))
            /\ CountTags(expr, {"AppOne"})
                  = Len(as) + CountTags(f.expr, {"AppOne"})
                            + CountTagsIn(as, {"AppOne"})

\* A call with two operands or more, the first two different, has been
\* normalized.
C8_Witness ==
    /\ Applied("expand_lam_app")
    /\ prev.expr.tag = "App"
    /\ Len(prev.expr.operands) >= 2
    /\ prev.expr.operands[1] # prev.expr.operands[2]
    /\ expr.tag = "AppOne"

\* C9: each gen_* call adds one to the counter, which starts at 0, and no
\* two calls on one TransformContext return the same name.
C9_NamesNeverRepeat ==
    /\ genvar_count = Len(issued)
    /\ \A i, j \in 1..Len(issued) : i # j => issued[i] # issued[j]

\* Calls of all three styles have been made, gen_cont twice.
C9_Witness ==
    /\ Len(issued) = MaxCalls
    /\ \E i \in 1..Len(issued) : SubSeq(issued[i], 1, 2) = <<"$", "a">>
    /\ \E i \in 1..Len(issued) : SubSeq(issued[i], 1, 2) = <<"$", "t">>
    /\ \E i, j \in 1..Len(issued) :
          /\ i # j
          /\ SubSeq(issued[i], 1, 2) = <<"$", "c">>
          /\ SubSeq(issued[j], 1, 2) = <<"$", "c">>

\* C10: rename_builtins run on its own output returns it unchanged: its
\* output holds no Var that names a table entry, and no canonical name is a
\* key of the table.
C10_RenameIdempotent ==
    /\ \A key \in BuiltinKeys : builtin_name(key) \notin BuiltinKeys
    /\ Applied("rename_builtins") =>
          \A n \in Nodes(expr) : n.tag = "Var" => n.name \notin BuiltinKeys
    /\ done = <<"rename_builtins", "rename_builtins">> => expr = prev.expr

\* rename_builtins has run twice on a tree that named builtins and others.
C10_Witness ==
    /\ done = <<"rename_builtins", "rename_builtins">>
    /\ \E n \in Nodes(expr) : n.tag = "BuiltinIdent"
    /\ \E n \in Nodes(expr) : n.tag = "Var"
    /\ \E n \in Nodes(expr) : n.tag = "Lam"


\* The S4 program after arity normalization, after body sequencing, after the
\* CPS conversion with the program's continuation k and after resolve_env.
S4_Normalized == expand_lam_app(transform_lits(rename_builtins(S4_Input)), 0)
S4_Sequenced == expand_lam_body(S4_Normalized.expr, S4_Normalized.count)
S4_Converted ==
    cps_transform_cont(S4_Sequenced.expr, Var(NameK), S4_Sequenced.count)

S4_Resolved == resolve_env(S4_Converted.expr)

\* C11: the pipeline run on ((lambda (x) x) 42) does not abort; lambda
\* lifting leaves exactly one lifted lambda, the source lambda with id 0, and
\* the top-level expression App2 { LamRef{id: 0}, Lit(42), k }.
C11_S4OneLiftedLambda ==
    /\ (Len(done) = 6 /\ prev.expr = S4_Converted.expr) =>
          Applied("resolve_env")
    /\ (Len(done) = 7 /\ prev.expr = S4_Resolved.expr) =>
          /\ Applied("extract_lambdas")
          /\ DOMAIN lambdas = {0}
          /\ lambdas[0].arg = NameX
          /\ expr.tag = "App2"
          /\ expr.rator = LamRef(0)
          /\ expr.rand = Lit("42")
          /\ expr.cont.tag = "EnvVar" /\ expr.cont.name = NameK

\* C12: cps_transform returns every input that is not a LamOneOne as it is,
\* a LamOneOneCont included; cps_transform_cont of a LamOneOneCont e returns
\* AppOne(cont, e) and does not abort.
C12_ConvertedLambdaPassesThrough ==
    /\ (done # <<>> /\ prev.expr.tag = "LamOneOneCont") =>
          /\ ~Applied("abort")
          /\ Applied("cps_transform") => expr = prev.expr
          /\ Applied("cps_transform_cont") => expr = AppOne(cont_arg, prev.expr)
    /\ (Applied("cps_transform") /\ prev.expr.tag # "LamOneOne") =>
          expr = prev.expr

\* The parameters a lambda binds, in the order their slot ids are allocated.
Params(l) == IF l.tag = "EnvLamCont" THEN <<l.arg, l.cont>> ELSE <<l.arg>>

RECURSIVE EnvExtended(_, _)
\* Every lambda of a tree resolved within env carries the Env of its
\* enclosing scope extended with its own parameters: a parameter gets a slot
\* id of its own, also when the enclosing Env binds the same name, and every
\* other name has the slot id of the enclosing Env.
EnvExtended(node, env) ==
    IF node.tag \in LamTags
    THEN LET own == {Params(node)[i] : i \in 1..Len(Params(node))}
         IN  /\ DOMAIN node.env = DOMAIN env \cup own
             /\ \A n \in DOMAIN env \ own : node.env[n] = env[n]
             /\ \A n \in own \cap DOMAIN env : node.env[n] # env[n]
             /\ node.tag = "EnvLamCont" =>
                   node.env[node.cont] = node.env[node.arg] + 1
             /\ EnvExtended(node.expr, node.env)
    ELSE \A i \in 1..Len(Children(node)) : EnvExtended(Children(node)[i], env)

\* The slot ids the binding sites of a tree have in their own lambda's Env.
BindingSlots(e) ==
    UNION {{l.env[Params(l)[i]] : i \in 1..Len(Params(l))} : l \in EnvLams(e)}

\* C13: after resolve_env the Env stored on every lambda, and recorded in
\* lam_map at the lambda's id, is the enclosing Env extended with the
\* lambda's parameters (cont allocated after arg); no two binding sites of
\* the compilation unit share a slot id; an inner binding shadows the outer
\* one; every other name keeps the slot id of the enclosing Env.
C13_LambdaEnvExtended ==
    Applied("resolve_env") =>
        /\ EnvExtended(expr, Env_empty)
        /\ Cardinality(BindingSlots(expr))
              = CountTags(expr, {"EnvLam"}) + 2 * CountTags(expr, {"EnvLamCont"})
        /\ BindingSlots(expr) = 0..(var_index - 1)
        /\ \A l \in EnvLams(expr) : lam_map[l.id + 1] = l.env

\* resolve_env has met a lambda whose parameter has the name of an enclosing
\* lambda's parameter, and the inner Env keeps the outer continuation's slot.
C13_Witness ==
    /\ Applied("resolve_env")
    /\ \E outer \in EnvLams(expr) :
          \E inner \in EnvLams(outer.expr) :
              /\ inner.tag = "EnvLamCont" /\ outer.tag = "EnvLamCont"
              /\ inner.arg = outer.arg
              /\ inner.env[inner.arg] # outer.env[outer.arg]
              /\ inner.env[outer.cont] = outer.env[outer.cont]

\* The names a tree mentions: its variables and the parameters it binds.
NamesOf(e) ==
    {n.name : n \in {m \in Nodes(e) : m.tag \in {"Var", "BuiltinIdent"}}}
    \cup {n.arg : n \in {m \in Nodes(e) :
                            m.tag \in {"LamOneOne", "LamOneOneCont"}}}
    \cup {n.cont : n \in {m \in Nodes(e) : m.tag = "LamOneOneCont"}}

\* C14: cps_transform_cont(AppOne(rator, rand), cont) is
\* cps_transform_cont(rator, LamOneOne(f, cps_transform_cont(rand,
\* LamOneOne(v, AppOneCont(Var(f), Var(v), cont))))) for two distinct names f
\* and v generated by the call: the operator's value is bound to f outside
\* the binding of the operand's value to v, and the call inside both gets
\* the original continuation as its third argument.
C14_OperatorThenOperand ==
    (Applied("cps_transform_cont") /\ prev.expr.tag = "AppOne") =>
        LET c == prev.genvar_count
            f == gen_ident(HintRatorVar, c).name
            v == gen_ident(HintRandVar, c + 1).name
            call == AppOneCont(Var(f), Var(v), cont_arg)
            rand == cps_transform_cont(prev.expr.operand, LamOneOne(v, call),
                                       c + 2)
            rator == cps_transform_cont(prev.expr.operator,
                                        LamOneOne(f, rand.expr), rand.count)
        IN  /\ expr = rator.expr
            /\ genvar_count = rator.count
            /\ f # v
            /\ {f, v} \cap (NamesOf(prev.expr) \cup NamesOf(cont_arg)) = {}
            /\ \E nf \in Nodes(expr) :
                  /\ nf.tag = "LamOneOne" /\ nf.arg = f
                  /\ LamOneOne(v, call) \in Nodes(nf.expr)
            /\ \A n \in Nodes(expr) :
                  n.tag = "AppOneCont" /\ n.cont = cont_arg => n = call

\* An application whose operator or operand is itself an application has
\* been converted, with a continuation that is a lambda.
C14_Witness ==
    /\ Applied("cps_transform_cont")
    /\ prev.expr.tag = "AppOne"
    /\ "AppOne" \in {prev.expr.operator.tag, prev.expr.operand.tag}
    /\ cont_arg.tag = "LamOneOne"
    /\ \E n \in Nodes(expr) : n.tag = "AppOneCont" /\ n.cont = cont_arg

\* A tree of LamOneOne, AppOne, Var, Lit and BuiltinIdent only.
DirectStyle(e) ==
    \A n \in Nodes(e) :
        n.tag \in {"LamOneOne", "AppOne", "Var", "Lit", "BuiltinIdent"}

RECURSIVE Occurrences(_, _), OccurrencesIn(_, _)
\* The number of positions of the tree t at which the subterm s stands.
Occurrences(t, s) == (IF t = s THEN 1 ELSE 0) + OccurrencesIn(Children(t), s)

OccurrencesIn(ts, s) ==
    IF ts = <<>> THEN 0
    ELSE Occurrences(Head(ts), s) + OccurrencesIn(Tail(ts), s)

\* A continuation that is a subterm of no tree and of no continuation: it
\* marks the position at which cps_transform_cont places its argument.
Hole == [tag |-> "Hole"]

RECURSIVE Fill(_, _)
\* The tree t with c in the place of every Hole.
Fill(t, c) ==
    CASE t = Hole -> c
      [] t.tag = "AppOne" -> AppOne(Fill(t.operator, c), Fill(t.operand, c))
      [] t.tag = "LamOneOne" -> LamOneOne(t.arg, Fill(t.expr, c))
      [] t.tag = "LamOneOneCont" ->
            LamOneOneCont(t.arg, t.cont, Fill(t.expr, c))
      [] t.tag = "AppOneCont" ->
            AppOneCont(Fill(t.operator, c), Fill(t.operand, c), Fill(t.cont, c))
      [] OTHER -> t

\* C15, as stated: the tree cps_transform_cont(e, cont) returns for a tree e
\* of LamOneOne, AppOne, Var, Lit and BuiltinIdent contains cont as a subterm
\* exactly once.
C15_ContExactlyOnce ==
    (Applied("cps_transform_cont") /\ DirectStyle(prev.expr)) =>
        Occurrences(expr, cont_arg) = 1

\* C15, amended: cps_transform_cont(e, cont) places cont at exactly one
\* position of the tree it returns, the rest of which does not depend on
\* cont; the tree contains cont as a subterm once for that position and once
\* more for every occurrence of cont in the rest of it, hence exactly once
\* when the conversion of e does not itself mention cont.
C15_ContPlacedOnce ==
    (Applied("cps_transform_cont") /\ DirectStyle(prev.expr)) =>
        LET context ==
                cps_transform_cont(prev.expr, Hole, prev.genvar_count).expr
        IN  /\ Occurrences(context, Hole) = 1
            /\ expr = Fill(context, cont_arg)
            /\ Occurrences(expr, cont_arg) = 1 + Occurrences(context, cont_arg)
            /\ NamesOf(cont_arg) \cap NamesOf(context) = {} =>
                  Occurrences(expr, cont_arg) = 1

\* An application inside an application has been converted with a
\* continuation that the tree does not mention.
C15_Witness ==
    /\ Applied("cps_transform_cont")
    /\ DirectStyle(prev.expr)
    /\ \E n \in Nodes(prev.expr) :
          n.tag = "AppOne" /\ "AppOne" \in {n.operator.tag, n.operand.tag}
    /\ NamesOf(cont_arg) \cap NamesOf(prev.expr) = {}
    /\ Occurrences(expr, cont_arg) = 1
====
